---- MODULE Spec2Model ----
(***************************************************************************)
(* Go Pulse (src/main.go): a polling file watcher, a build-and-run         *)
(* sequencer and a child-process supervisor, arbitrated by the select loop *)
(* of main().  Three goroutines are modelled: main (the coordinator), the  *)
(* watchFiles goroutine (the detector) and the goroutine started by        *)
(* setupSignalHandling.  The environment touches, creates and deletes      *)
(* files, delivers signals, and lets the child process exit on its own.    *)
(***************************************************************************)
EXTENDS Integers, Sequences, FiniteSets, TLC

\* ---------------------------------------------------------------- bounds
NFiles == 2          \* paths with a watched extension under config.WatchDir

Files == 1..NFiles   \* in the lexical order filepath.Walk visits them

\* What the walk callback can see of a path.  Modification times are kept
\* relative to the detector's fingerprint, the only way the code reads them
\* (modTime.After(lastMod), main.go:259): "later" is a file whose time is
\* after lastModified[path], "notlater" an existing file whose time is not,
\* or that has no fingerprint.
FileStates == {"absent", "notlater", "later"}

VARIABLES
    fs,            \* file tree: path -> FileStates
    configFile,    \* what loadConfig finds at configPath
    config,        \* the config global: MaxWatchers and WatchInterval
    maxWatchers,   \* config.MaxWatchers as watchFiles reads it
    intervalValid, \* config.WatchInterval parses as a duration
    walk,          \* the detector's walk in progress, when one is suspended
    cpc,           \* main goroutine: position in main()
    exitCode,      \* main's exitCode local; the exit status once exited
    cmd,           \* the cmd global: which process it refers to, if any
    running,       \* number of child processes running (OS process table)
    zombies,       \* number of children exited and not yet waited for
    cancelled,     \* cancelCtx is done
    wpc,           \* watchFiles goroutine: position
    lastModified,  \* the keys of watchFiles' lastModified map
    errCh,         \* buffer of errCh (capacity 1): "empty" or the error
    spc,           \* signal goroutine: position
    sigCh,         \* buffer of sigCh (capacity 1): number of signals held
    \* history variables, written but never read by the program's actions
    inFlight,      \* buildAndRun calls entered and not yet returned
    arrivals,      \* events offered and not yet consumed, oldest first
    drainCause,    \* the event whose receipt left the loop
    raised,        \* the detector has sent a fatal error
    lastBuild,     \* outcome of the last buildAndRun
    chg,           \* a qualifying file change not yet followed by a rebuild
    sigInBuild,    \* a signal was delivered while buildAndRun was running
    pass           \* the detector's current pass: files found changed,
                   \* notifications offered

confVars == <<configFile, config, maxWatchers, intervalValid>>

vars == <<fs, confVars, walk, cpc, exitCode, cmd, running, zombies,
          cancelled, wpc, lastModified, errCh, spc, sigCh, inFlight, arrivals,
          drainCause, raised, lastBuild, chg, sigInBuild, pass>>

progVars == <<confVars, walk, cpc, exitCode, cmd, running, zombies,
              cancelled, wpc, lastModified, errCh, spc, sigCh>>

\* ------------------------------------------------------- pure functions

\* len(lastModified)
Tracked(lm) == Cardinality(lm)

\* The watched files that are new, or modified since their fingerprint
\* (main.go:259, stated on the whole tree).
ChangedFiles(tree, lm) ==
    {f \in Files : tree[f] # "absent" /\ (f \notin lm \/ tree[f] = "later")}

\* Variant of InitialWalk that stops recording at the limit and goes on,
\* instead of failing.
RECURSIVE InitialWalkTruncate(_, _, _, _, _)
InitialWalkTruncate(f, tree, lm, maxW, bad) ==
    IF f > NFiles THEN [lm |-> lm, err |-> "none"]
    ELSE IF bad = f THEN [lm |-> lm, err |-> "walk"]
    ELSE IF tree[f] = "absent" THEN InitialWalkTruncate(f + 1, tree, lm, maxW, bad)
    ELSE LET lm2 == lm \cup {f}
         IN  IF Tracked(lm2) > maxW
             THEN InitialWalkTruncate(f + 1, tree, lm, maxW, bad)
             ELSE InitialWalkTruncate(f + 1, tree, lm2, maxW, bad)

\* The callback of the initial filepath.Walk, applied from path f on.
\* bad is the path at which the walk reports an error (0: none).
RECURSIVE InitialWalk(_, _, _, _, _)
InitialWalk(f, tree, lm, maxW, bad) ==
    IF f > NFiles THEN [lm |-> lm, err |-> "none"]
    ELSE IF bad = f THEN [lm |-> lm, err |-> "walk"]
    ELSE IF tree[f] = "absent" THEN InitialWalk(f + 1, tree, lm, maxW, bad)
    ELSE LET lm2 == lm \cup {f}
         IN  IF Tracked(lm2) > maxW
             THEN [lm |-> lm2, err |-> "limit"]
             ELSE InitialWalk(f + 1, tree, lm2, maxW, bad)

\* Variant of TickWalk that records a new file without counting it as a
\* change.
RECURSIVE TickWalkNoNew(_, _, _, _, _, _)
TickWalkNoNew(f, tree, lm, changes, maxW, bad) ==
    IF f > NFiles
    THEN [lm |-> lm, tree |-> tree, changes |-> changes, err |-> "none"]
    ELSE IF bad = f
    THEN [lm |-> lm, tree |-> tree, changes |-> changes, err |-> "walk"]
    ELSE IF tree[f] = "absent"
    THEN TickWalkNoNew(f + 1, tree, lm, changes, maxW, bad)
    ELSE LET exists == f \in lm
             mod == (~exists) \/ tree[f] = "later"
             lm2 == IF mod THEN lm \cup {f} ELSE lm
             tree2 == IF mod THEN [tree EXCEPT ![f] = "notlater"] ELSE tree
             ch2 == changes \/ (exists /\ mod)
         IN  IF (~exists) /\ Tracked(lm2) >= maxW
             THEN [lm |-> lm2, tree |-> tree2, changes |-> ch2, err |-> "limit"]
             ELSE TickWalkNoNew(f + 1, tree2, lm2, ch2, maxW, bad)

\* The callback of the per-tick filepath.Walk, applied from path f on.
\* Storing modTime in lastModified[path] makes the file "notlater".
RECURSIVE TickWalk(_, _, _, _, _, _)
TickWalk(f, tree, lm, changes, maxW, bad) ==
    IF f > NFiles
    THEN [lm |-> lm, tree |-> tree, changes |-> changes, err |-> "none"]
    ELSE IF bad = f
    THEN [lm |-> lm, tree |-> tree, changes |-> changes, err |-> "walk"]
    ELSE IF tree[f] = "absent"
    THEN TickWalk(f + 1, tree, lm, changes, maxW, bad)
    ELSE LET exists == f \in lm
             mod == (~exists) \/ tree[f] = "later"
             lm2 == IF mod THEN lm \cup {f} ELSE lm
             tree2 == IF mod THEN [tree EXCEPT ![f] = "notlater"] ELSE tree
             ch2 == changes \/ mod
         IN  IF (~exists) /\ Tracked(lm2) >= maxW
             THEN [lm |-> lm2, tree |-> tree2, changes |-> ch2, err |-> "limit"]
             ELSE TickWalk(f + 1, tree2, lm2, ch2, maxW, bad)

\* Variant of stopProcess that returns without Kill and Wait.
stopProcessNoKill(c, r, z) == [cmd |-> c, running |-> r, zombies |-> z]

\* Variant of stopProcess that kills the process without waiting for it.
stopProcessNoWait(c, r, z) ==
    IF c = "running" THEN [cmd |-> "exited", running |-> r - 1, zombies |-> z + 1]
    ELSE [cmd |-> c, running |-> r, zombies |-> z]

\* stopProcess: cmd and the process table after the call.  Kill and Wait on
\* a process that has already exited, or been waited for, return errors the
\* code ignores.
stopProcess(c, r, z) ==
    IF c = "running" THEN [cmd |-> "reaped", running |-> r - 1, zombies |-> z]
    ELSE IF c = "exited" THEN [cmd |-> "reaped", running |-> r, zombies |-> z - 1]
    ELSE [cmd |-> c, running |-> r, zombies |-> z]

\* Remove the oldest occurrence of event e from the arrival record.
RECURSIVE Consume(_, _)
Consume(s, e) ==
    IF s = <<>> THEN s
    ELSE IF Head(s) = e THEN Tail(s)
    ELSE <<Head(s)>> \o Consume(Tail(s), e)

\* ---------------------------------------------------------- loadConfig

\* Durations in milliseconds.
minInterval == 500
maxInterval == 3600000
DefaultInterval == 1000
DefaultMaxWatchers == 100
MaxWatchersLimit == 500

\* A value of the string config.WatchInterval: the empty string, a string
\* time.ParseDuration rejects, or one it reads as ms milliseconds.
EmptyInterval == [kind |-> "empty", ms |-> 0]
BadInterval == [kind |-> "bad", ms |-> 0]
Dur(ms) == [kind |-> "dur", ms |-> ms]

\* time.ParseDuration
ParseDuration(s) ==
    IF s.kind = "dur" THEN [ok |-> TRUE, d |-> s.ms] ELSE [ok |-> FALSE, d |-> 0]

\* The config global before loadConfig, restricted to the validated fields.
DefaultConfig ==
    [MaxWatchers |-> DefaultMaxWatchers, WatchInterval |-> Dur(DefaultInterval)]

\* The values tried for watch_interval and max_watchers in the file.
IntervalInputs ==
    {EmptyInterval, BadInterval} \cup
    {Dur(ms) : ms \in {0 - 1, 0, minInterval - 1, minInterval, DefaultInterval,
                        maxInterval, maxInterval + 1}}
MaxWatchersInputs ==
    {0 - 1, 0, 1, 2, DefaultMaxWatchers, MaxWatchersLimit, MaxWatchersLimit + 1}

\* What loadConfig can find at configPath.  status: no such file; a file
\* that cannot be read; text that is not JSON; JSON in which some other
\* field has the wrong type; JSON that decodes.  A field absent from the
\* file is a field that holds the default.
ConfigFiles ==
    [status : {"missing", "unreadable", "syntax", "typeerror", "ok"},
     WatchInterval : IntervalInputs,
     MaxWatchers : MaxWatchersInputs]

\* json.Unmarshal(data, &config): a syntax error is found before anything is
\* stored; a field of the wrong type is skipped, every other field is stored
\* and the type error is returned at the end.
Unmarshal(c, file) ==
    IF file.status = "syntax" THEN [config |-> c, err |-> TRUE]
    ELSE [config |-> [MaxWatchers |-> file.MaxWatchers,
                      WatchInterval |-> file.WatchInterval],
          err |-> file.status = "typeerror"]

\* loadConfig: the config global when it returns.
loadConfig(c, file) ==
    IF file.status \in {"missing", "unreadable"} THEN c
    ELSE LET u == Unmarshal(c, file)
         IN  IF u.err THEN u.config
             ELSE LET mw == IF u.config.MaxWatchers < 1 THEN DefaultMaxWatchers
                            ELSE IF u.config.MaxWatchers > MaxWatchersLimit
                            THEN MaxWatchersLimit
                            ELSE u.config.MaxWatchers
                      p == ParseDuration(u.config.WatchInterval)
                      bad == ~p.ok \/ u.config.WatchInterval = EmptyInterval
                      s1 == IF bad THEN Dur(DefaultInterval)
                            ELSE u.config.WatchInterval
                      d1 == IF bad THEN DefaultInterval ELSE p.d
                      s2 == IF d1 < minInterval THEN Dur(minInterval) ELSE s1
                      d2 == IF d1 < minInterval THEN minInterval ELSE d1
                      s3 == IF d2 > maxInterval THEN Dur(maxInterval) ELSE s2
                  IN  [MaxWatchers |-> mw, WatchInterval |-> s3]

\* The coordinator's states of section 4.4.
Starting == cpc \in {"start", "initbuild"}
Running == cpc \in {"select", "rebuild"}
Draining == cpc \in {"drain", "stopfinal", "exit"}
Exited == cpc = "exited"

\* ----------------------------------------------------------------- Init
\* main starts after loadConfig has returned, with a limit the bounded tree
\* can reach; an interval that does not parse is left by a file that
\* json.Unmarshal decodes with a type error.
Init ==
    /\ fs \in [Files -> {"absent", "notlater"}]
    /\ maxWatchers \in 1..NFiles
    /\ intervalValid \in BOOLEAN
    /\ configFile = [status |-> IF intervalValid THEN "ok" ELSE "typeerror",
                     WatchInterval |-> IF intervalValid THEN Dur(DefaultInterval)
                                       ELSE BadInterval,
                     MaxWatchers |-> maxWatchers]
    /\ config = loadConfig(DefaultConfig, configFile)
    /\ walk = [pos |-> 0, changes |-> FALSE]
    /\ cpc = "start"
    /\ exitCode = 0
    /\ cmd = "nil"
    /\ running = 0
    /\ zombies = 0
    /\ cancelled = FALSE
    /\ wpc = "init"
    /\ lastModified = {}
    /\ errCh = "empty"
    /\ spc = "select"
    /\ sigCh = 0
    /\ inFlight = 0
    /\ arrivals = <<>>
    /\ drainCause = "none"
    /\ raised = FALSE
    /\ lastBuild = "none"
    /\ chg = "none"
    /\ sigInBuild = FALSE
    /\ pass = [changed |-> 0, emitted |-> 0]

\* main.go:76, main before the call of loadConfig, for every file the call
\* can find.
LoadInit ==
    /\ fs \in [Files -> {"absent"}]
    /\ configFile \in ConfigFiles
    /\ config = DefaultConfig
    /\ maxWatchers = DefaultConfig.MaxWatchers
    /\ intervalValid = ParseDuration(DefaultConfig.WatchInterval).ok
    /\ walk = [pos |-> 0, changes |-> FALSE]
    /\ cpc = "loadconfig"
    /\ exitCode = 0
    /\ cmd = "nil"
    /\ running = 0
    /\ zombies = 0
    /\ cancelled = FALSE
    /\ wpc = "init"
    /\ lastModified = {}
    /\ errCh = "empty"
    /\ spc = "select"
    /\ sigCh = 0
    /\ inFlight = 0
    /\ arrivals = <<>>
    /\ drainCause = "none"
    /\ raised = FALSE
    /\ lastBuild = "none"
    /\ chg = "none"
    /\ sigInBuild = FALSE
    /\ pass = [changed |-> 0, emitted |-> 0]

\* main.go:76, loadConfig(*configFlag)
LoadConfig ==
    /\ cpc = "loadconfig"
    /\ config' = loadConfig(config, configFile)
    /\ maxWatchers' = config'.MaxWatchers
    /\ intervalValid' = ParseDuration(config'.WatchInterval).ok
    /\ cpc' = "start"
    /\ UNCHANGED <<fs, configFile, walk, exitCode, cmd, running, zombies,
                   cancelled, wpc, lastModified, errCh, spc, sigCh, inFlight,
                   arrivals, drainCause, raised, lastBuild, chg, sigInBuild,
                   pass>>

LoadNext == LoadConfig

LoadSpec == LoadInit /\ [][LoadNext]_vars

\* ---------------------------------------------------------- environment

\* A change that leaves path f in state v: the history variable chg records
\* it when the coordinator is Running and the baseline has not been
\* recorded, or when it is one the detector's comparison can see.
NoteChange(f, v) ==
    chg' = IF wpc = "init"
           THEN (IF Running THEN "nobase" ELSE chg)
           ELSE IF f \notin lastModified \/ v = "later"
                THEN "base" ELSE chg

\* A watched file is modified: its modification time becomes the current
\* time, which is after any time recorded before.
Touch(f) ==
    /\ ~Exited
    /\ fs[f] # "absent"
    /\ LET v == IF f \in lastModified THEN "later" ELSE "notlater"
       IN  /\ fs' = [fs EXCEPT ![f] = v]
           /\ NoteChange(f, v)
    /\ UNCHANGED <<progVars, inFlight, arrivals, drainCause, raised, lastBuild,
                   sigInBuild, pass>>

\* A watched file is added: with the current time, or (a copy that keeps
\* its time) with a time that is not after a fingerprint left for its path.
Create(f) ==
    /\ ~Exited
    /\ fs[f] = "absent"
    /\ \E v \in (IF f \in lastModified THEN {"notlater", "later"} ELSE {"notlater"}) :
          /\ fs' = [fs EXCEPT ![f] = v]
          /\ NoteChange(f, v)
    /\ UNCHANGED <<progVars, inFlight, arrivals, drainCause, raised, lastBuild,
                   sigInBuild, pass>>

\* A watched file is deleted; its fingerprint, if any, stays.
Delete(f) ==
    /\ ~Exited
    /\ fs[f] # "absent"
    /\ fs' = [fs EXCEPT ![f] = "absent"]
    /\ chg' = IF /\ chg = "base"
                 /\ ChangedFiles(fs, lastModified) # {}
                 /\ ChangedFiles(fs', lastModified) = {}
              THEN "none" ELSE chg
    /\ UNCHANGED <<progVars, inFlight, arrivals, drainCause, raised, lastBuild,
                   sigInBuild, pass>>

\* The OS delivers SIGINT or SIGTERM: signal.Notify's non-blocking send.
Signal ==
    /\ ~Exited
    /\ sigCh' = 1
    /\ sigInBuild' = (sigInBuild \/ (inFlight > 0 /\ spc = "select" /\ sigCh = 0))
    /\ UNCHANGED <<fs, confVars, walk, cpc, exitCode, cmd, running,
                   zombies, cancelled, wpc, lastModified, errCh, spc, inFlight,
                   arrivals, drainCause, raised, lastBuild, chg, pass>>

\* The child process ends by itself and waits to be reaped.
ChildExit ==
    /\ ~Exited
    /\ cmd = "running"
    /\ cmd' = "exited"
    /\ running' = running - 1
    /\ zombies' = zombies + 1
    /\ UNCHANGED <<fs, confVars, walk, cpc, exitCode, cancelled, wpc,
                   lastModified, errCh, spc, sigCh, inFlight, arrivals, drainCause,
                   raised, lastBuild, chg, sigInBuild, pass>>

\* --------------------------------------------------- main (coordinator)

\* Variant of buildAndRun that goes on to start the run command after a
\* failed build.
buildAndRunIgnoreFail(c, r, buildOK, startOK) ==
    IF startOK THEN [cmd |-> "running", running |-> r + 1]
    ELSE [cmd |-> "noproc", running |-> r]

\* buildAndRun as a function of the outcome of the build command and of
\* cmd.Start(): cmd and the number of running children when it returns.
buildAndRun(c, r, buildOK, startOK) ==
    IF ~buildOK THEN [cmd |-> c, running |-> r]
    ELSE IF startOK THEN [cmd |-> "running", running |-> r + 1]
    ELSE [cmd |-> "noproc", running |-> r]

\* main.go:95, the initial buildAndRun is entered.
InitialBuild ==
    /\ cpc = "start"
    /\ cpc' = "initbuild"
    /\ inFlight' = inFlight + 1
    /\ UNCHANGED <<fs, confVars, walk, exitCode, cmd, running, zombies,
                   cancelled, wpc, lastModified, errCh, spc, sigCh, arrivals,
                   drainCause, raised, lastBuild, chg, sigInBuild, pass>>

\* Variant of BuildReturn that treats a failed build or launch as fatal.
BuildReturnFatal ==
    /\ cpc \in {"initbuild", "rebuild"}
    /\ \E buildOK \in BOOLEAN, startOK \in BOOLEAN :
          LET r == buildAndRun(cmd, running, buildOK, startOK)
          IN  /\ cmd' = r.cmd
              /\ running' = r.running
              /\ lastBuild' = IF ~buildOK THEN "failed"
                              ELSE IF startOK THEN "ok" ELSE "launchfail"
              /\ cpc' = IF buildOK /\ startOK THEN "select" ELSE "drain"
              /\ exitCode' = IF buildOK /\ startOK THEN exitCode ELSE 1
    /\ inFlight' = inFlight - 1
    /\ UNCHANGED <<fs, confVars, walk, zombies, cancelled,
                   wpc, lastModified, errCh, spc, sigCh, arrivals, drainCause,
                   raised, chg, sigInBuild, pass>>

\* buildAndRun runs to its return: the build command ends, and on success
\* the run command is started.
BuildReturn ==
    /\ cpc \in {"initbuild", "rebuild"}
    /\ \E buildOK \in BOOLEAN, startOK \in BOOLEAN :
          LET r == buildAndRun(cmd, running, buildOK, startOK)
          IN  /\ cmd' = r.cmd
              /\ running' = r.running
              /\ lastBuild' = IF ~buildOK THEN "failed"
                              ELSE IF startOK THEN "ok" ELSE "launchfail"
    /\ cpc' = "select"
    /\ inFlight' = inFlight - 1
    /\ UNCHANGED <<fs, confVars, walk, exitCode, zombies, cancelled,
                   wpc, lastModified, errCh, spc, sigCh, arrivals, drainCause,
                   raised, chg, sigInBuild, pass>>

\* Variant of RecvBuild that enters buildAndRun without calling stopProcess.
RecvBuildNoStop ==
    /\ cpc = "select"
    /\ wpc = "send_build"
    /\ wpc' = "wait"
    /\ cpc' = "rebuild"
    /\ inFlight' = inFlight + 1
    /\ arrivals' = Consume(arrivals, "build")
    /\ chg' = "none"
    /\ UNCHANGED <<fs, confVars, walk, exitCode, cmd, running, zombies,
                   cancelled, lastModified, errCh, spc, sigCh, drainCause, raised,
                   lastBuild, sigInBuild, pass>>

\* Variant of RecvBuild: the rebuild is started with "go buildAndRun()" and
\* the loop returns to its select at once.
RecvBuildAsync ==
    /\ cpc = "select"
    /\ wpc = "send_build"
    /\ wpc' = "wait"
    /\ LET r == stopProcess(cmd, running, zombies)
       IN  /\ cmd' = r.cmd
           /\ running' = r.running
           /\ zombies' = r.zombies
    /\ cpc' = "select"
    /\ inFlight' = inFlight + 1
    /\ arrivals' = Consume(arrivals, "build")
    /\ chg' = "none"
    /\ UNCHANGED <<fs, confVars, walk, exitCode, cancelled,
                   lastModified, errCh, spc, sigCh, drainCause, raised, lastBuild,
                   sigInBuild, pass>>

\* case <-buildCh: the rendezvous with the detector's send, stopProcess,
\* and entry into buildAndRun.
RecvBuild ==
    /\ cpc = "select"
    /\ wpc = "send_build"
    /\ wpc' = "wait"
    /\ LET r == stopProcess(cmd, running, zombies)
       IN  /\ cmd' = r.cmd
           /\ running' = r.running
           /\ zombies' = r.zombies
    /\ cpc' = "rebuild"
    /\ inFlight' = inFlight + 1
    /\ arrivals' = Consume(arrivals, "build")
    /\ chg' = "none"
    /\ UNCHANGED <<fs, confVars, walk, exitCode, cancelled,
                   lastModified, errCh, spc, sigCh, drainCause, raised, lastBuild,
                   sigInBuild, pass>>

\* Variant of RecvErr that leaves exitCode as it is.
RecvErrNoStatus ==
    /\ cpc = "select"
    /\ errCh # "empty"
    /\ errCh' = "empty"
    /\ cpc' = "drain"
    /\ drainCause' = "fatal"
    /\ arrivals' = Consume(arrivals, "err")
    /\ UNCHANGED <<fs, confVars, walk, exitCode, cmd, running, zombies,
                   cancelled, wpc, lastModified, spc, sigCh, inFlight, raised,
                   lastBuild, chg, sigInBuild, pass>>

\* case err := <-errCh
RecvErr ==
    /\ cpc = "select"
    /\ errCh # "empty"
    /\ errCh' = "empty"
    /\ exitCode' = 1
    /\ cpc' = "drain"
    /\ drainCause' = "fatal"
    /\ arrivals' = Consume(arrivals, "err")
    /\ UNCHANGED <<fs, confVars, walk, cmd, running, zombies, cancelled,
                   wpc, lastModified, spc, sigCh, inFlight, raised, lastBuild, chg,
                   sigInBuild, pass>>

\* Variant of RecvDone in which the signal is acted on while buildAndRun is
\* still running.
RecvDoneInterrupt ==
    /\ cpc \in {"select", "initbuild", "rebuild"}
    /\ spc = "send_done"
    /\ spc' = "returned"
    /\ cpc' = "drain"
    /\ drainCause' = "signal"
    /\ arrivals' = Consume(arrivals, "done")
    /\ UNCHANGED <<fs, confVars, walk, exitCode, cmd, running, zombies,
                   cancelled, wpc, lastModified, errCh, sigCh, inFlight, raised,
                   lastBuild, chg, sigInBuild, pass>>

\* Variant of RecvDone in which the signal goroutine loops and goes back to
\* waiting for signals once its send has been received.
RecvDoneRearm ==
    /\ cpc = "select"
    /\ spc = "send_done"
    /\ spc' = "select"
    /\ cpc' = "drain"
    /\ drainCause' = "signal"
    /\ arrivals' = Consume(arrivals, "done")
    /\ UNCHANGED <<fs, confVars, walk, exitCode, cmd, running, zombies,
                   cancelled, wpc, lastModified, errCh, sigCh, inFlight, raised,
                   lastBuild, chg, sigInBuild, pass>>

\* case <-done: the rendezvous with the signal goroutine's send.
RecvDone ==
    /\ cpc = "select"
    /\ spc = "send_done"
    /\ spc' = "returned"
    /\ cpc' = "drain"
    /\ drainCause' = "signal"
    /\ arrivals' = Consume(arrivals, "done")
    /\ UNCHANGED <<fs, confVars, walk, exitCode, cmd, running, zombies,
                   cancelled, wpc, lastModified, errCh, sigCh, inFlight, raised,
                   lastBuild, chg, sigInBuild, pass>>

\* Variant of Cancel that goes back to the select loop after cancel().
CancelAndLoop ==
    /\ cpc = "drain"
    /\ cancelled' = TRUE
    /\ cpc' = "select"
    /\ UNCHANGED <<fs, confVars, walk, exitCode, cmd, running, zombies,
                   wpc, lastModified, errCh, spc, sigCh, inFlight, arrivals,
                   drainCause, raised, lastBuild, chg, sigInBuild, pass>>

\* main.go:115, cancel()
Cancel ==
    /\ cpc = "drain"
    /\ cancelled' = TRUE
    /\ cpc' = "stopfinal"
    /\ UNCHANGED <<fs, confVars, walk, exitCode, cmd, running, zombies,
                   wpc, lastModified, errCh, spc, sigCh, inFlight, arrivals,
                   drainCause, raised, lastBuild, chg, sigInBuild, pass>>

\* main.go:116, stopProcess()
FinalStop ==
    /\ cpc = "stopfinal"
    /\ LET r == stopProcess(cmd, running, zombies)
       IN  /\ cmd' = r.cmd
           /\ running' = r.running
           /\ zombies' = r.zombies
    /\ cpc' = "exit"
    /\ UNCHANGED <<fs, confVars, walk, exitCode, cancelled, wpc,
                   lastModified, errCh, spc, sigCh, inFlight, arrivals, drainCause,
                   raised, lastBuild, chg, sigInBuild, pass>>

\* main.go:117, os.Exit(exitCode): every goroutine ends with the process.
Exit ==
    /\ cpc = "exit"
    /\ cpc' = "exited"
    /\ UNCHANGED <<fs, confVars, walk, exitCode, cmd, running, zombies,
                   cancelled, wpc, lastModified, errCh, spc, sigCh, inFlight,
                   arrivals, drainCause, raised, lastBuild, chg, sigInBuild,
                   pass>>

\* ------------------------------------------------ watchFiles (detector)

\* Variant of RaiseError in which the detector sends the error and goes on
\* with its loop.
RaiseErrorAndGoOn(e) ==
    /\ errCh' = e
    /\ wpc' = "wait"
    /\ raised' = TRUE
    /\ arrivals' = Append(arrivals, "err")

\* The detector sends err on errCh and returns.
RaiseError(e) ==
    /\ errCh' = e
    /\ wpc' = "stopped"
    /\ raised' = TRUE
    /\ arrivals' = Append(arrivals, "err")

\* main.go:206-236, the initial walk and the parse of the interval.
WatchInit ==
    /\ ~Exited
    /\ wpc = "init"
    /\ \E bad \in 0..NFiles :
          LET r == InitialWalk(1, fs, lastModified, maxWatchers, bad)
          IN  /\ lastModified' = r.lm
              /\ IF r.err # "none" THEN RaiseError(r.err)
                 ELSE IF ~intervalValid THEN RaiseError("interval")
                 ELSE /\ wpc' = "wait"
                      /\ UNCHANGED <<errCh, raised, arrivals>>
    /\ UNCHANGED <<fs, confVars, walk, cpc, exitCode, cmd, running,
                   zombies, cancelled, spc, sigCh, inFlight, drainCause, lastBuild,
                   chg, sigInBuild, pass>>

\* case <-ctx.Done()
WatchCancel ==
    /\ ~Exited
    /\ wpc = "wait"
    /\ cancelled
    /\ wpc' = "stopped"
    /\ UNCHANGED <<fs, confVars, walk, cpc, exitCode, cmd, running,
                   zombies, cancelled, lastModified, errCh, spc, sigCh, inFlight,
                   arrivals, drainCause, raised, lastBuild, chg, sigInBuild,
                   pass>>

\* case <-ticker.C: a pass begins.
Tick ==
    /\ ~Exited
    /\ wpc = "wait"
    /\ wpc' = "walk"
    /\ pass' = [changed |-> 0, emitted |-> 0]
    /\ UNCHANGED <<fs, confVars, walk, cpc, exitCode, cmd, running,
                   zombies, cancelled, lastModified, errCh, spc, sigCh, inFlight,
                   arrivals, drainCause, raised, lastBuild, chg, sigInBuild>>

\* Variant of Walk whose send on buildCh does not block: the notification is
\* dropped when main is not waiting in its select.
WalkDropsWhenBusy ==
    /\ ~Exited
    /\ wpc = "walk"
    /\ \E bad \in 0..NFiles :
          LET r == TickWalk(1, fs, lastModified, FALSE, maxWatchers, bad)
              n == Cardinality(ChangedFiles(fs, lastModified))
          IN  /\ lastModified' = r.lm
              /\ fs' = r.tree
              /\ IF r.err # "none"
                 THEN /\ RaiseError(r.err)
                      /\ pass' = [changed |-> n, emitted |-> pass.emitted]
                 ELSE IF r.changes /\ cpc = "select"
                 THEN /\ wpc' = "send_build"
                      /\ arrivals' = Append(arrivals, "build")
                      /\ pass' = [changed |-> n, emitted |-> pass.emitted + 1]
                      /\ UNCHANGED <<errCh, raised>>
                 ELSE /\ wpc' = "wait"
                      /\ pass' = [changed |-> n, emitted |-> pass.emitted]
                      /\ UNCHANGED <<errCh, raised, arrivals>>
    /\ UNCHANGED <<confVars, walk, cpc, exitCode, cmd, running,
                   zombies, cancelled, spc, sigCh, inFlight, drainCause, lastBuild,
                   chg, sigInBuild>>

\* main.go:244-281, the walk of the pass and what the detector does with
\* its result: send the error, offer a notification, or wait again.
Walk ==
    /\ ~Exited
    /\ wpc = "walk"
    /\ \E bad \in 0..NFiles :
          LET r == TickWalk(1, fs, lastModified, FALSE, maxWatchers, bad)
              n == Cardinality(ChangedFiles(fs, lastModified))
          IN  /\ lastModified' = r.lm
              /\ fs' = r.tree
              /\ IF r.err # "none"
                 THEN /\ RaiseError(r.err)
                      /\ pass' = [changed |-> n, emitted |-> pass.emitted]
                 ELSE IF r.changes
                 THEN /\ wpc' = "send_build"
                      /\ arrivals' = Append(arrivals, "build")
                      /\ pass' = [changed |-> n, emitted |-> pass.emitted + 1]
                      /\ UNCHANGED <<errCh, raised>>
                 ELSE /\ wpc' = "wait"
                      /\ pass' = [changed |-> n, emitted |-> pass.emitted]
                      /\ UNCHANGED <<errCh, raised, arrivals>>
    /\ UNCHANGED <<confVars, walk, cpc, exitCode, cmd, running,
                   zombies, cancelled, spc, sigCh, inFlight, drainCause, lastBuild,
                   chg, sigInBuild>>

\* ------------------------------------- setupSignalHandling's goroutine

\* case sig := <-sigCh: the goroutine goes on to send on done.
SigRecv ==
    /\ ~Exited
    /\ spc = "select"
    /\ sigCh = 1
    /\ sigCh' = 0
    /\ spc' = "send_done"
    /\ arrivals' = Append(arrivals, "done")
    /\ UNCHANGED <<fs, confVars, walk, cpc, exitCode, cmd, running,
                   zombies, cancelled, wpc, lastModified, errCh, inFlight,
                   drainCause, raised, lastBuild, chg, sigInBuild, pass>>

\* case <-ctx.Done()
SigCancel ==
    /\ ~Exited
    /\ spc = "select"
    /\ cancelled
    /\ spc' = "returned"
    /\ UNCHANGED <<fs, confVars, walk, cpc, exitCode, cmd, running,
                   zombies, cancelled, wpc, lastModified, errCh, sigCh, inFlight,
                   arrivals, drainCause, raised, lastBuild, chg, sigInBuild,
                   pass>>

\* ------------------------------------------------------- specification
Coordinator ==
    \/ InitialBuild \/ BuildReturn \/ RecvBuild \/ RecvErr \/ RecvDone
    \/ Cancel \/ FinalStop \/ Exit

Detector == WatchInit \/ WatchCancel \/ Tick \/ Walk

SignalHandler == SigRecv \/ SigCancel

Environment ==
    \/ \E f \in Files : Touch(f)
    \/ \E f \in Files : Create(f)
    \/ \E f \in Files : Delete(f)
    \/ Signal
    \/ ChildExit

Next == Coordinator \/ Detector \/ SignalHandler \/ Environment

Spec == Init /\ [][Next]_vars

\* The Go scheduler runs every goroutine that can take a step; the build
\* command and the ticker are assumed to complete and to fire.
FairSpec ==
    /\ Spec
    /\ WF_vars(Coordinator)
    /\ WF_vars(Detector)
    /\ WF_vars(SignalHandler)

\* main.go:100-113: Go's select picks uniformly at random among the cases
\* that are ready, so the done case, ready every time main comes back to the
\* select, is eventually taken however often buildCh is ready as well.
FairChoiceSpec ==
    /\ FairSpec
    /\ SF_vars(RecvDone)

\* ------------------------------------- the WaitGroup revision (v0.0.1)
\* src/unnamed/part_000 is the revision of main.go in which main waits for
\* the watchFiles goroutine (wg.Wait) before os.Exit, the walk callbacks
\* send a walk error on errCh themselves and let the walk go on, and there
\* is no watch limit.  buildAndRun, stopProcess and the select loop's three
\* receives act as in main.go.

\* The callback of the per-tick walk, applied to the paths f..last that the
\* walk reads without error.
RECURSIVE TickWalkWg(_, _, _, _, _)
TickWalkWg(f, last, tree, lm, changes) ==
    IF f > last THEN [lm |-> lm, tree |-> tree, changes |-> changes]
    ELSE IF tree[f] = "absent" THEN TickWalkWg(f + 1, last, tree, lm, changes)
    ELSE LET mod == f \notin lm \/ tree[f] = "later"
         IN  TickWalkWg(f + 1, last,
                        IF mod THEN [tree EXCEPT ![f] = "notlater"] ELSE tree,
                        IF mod THEN lm \cup {f} ELSE lm,
                        changes \/ mod)

\* Initial state: Init; the revision has no MaxWatchers field.
InitWg == Init /\ maxWatchers = NFiles

\* part_000:91-92 and 97-98, stopProcess() and then wg.Wait()
FinalStopWg ==
    /\ cpc = "stopfinal"
    /\ LET r == stopProcess(cmd, running, zombies)
       IN  /\ cmd' = r.cmd
           /\ running' = r.running
           /\ zombies' = r.zombies
    /\ cpc' = "wgwait"
    /\ UNCHANGED <<fs, confVars, walk, exitCode, cancelled, wpc,
                   lastModified, errCh, spc, sigCh, inFlight, arrivals, drainCause,
                   raised, lastBuild, chg, sigInBuild, pass>>

\* wg.Wait() returns once watchFiles has returned (defer wg.Done()).
WgWait ==
    /\ cpc = "wgwait"
    /\ wpc = "stopped"
    /\ cpc' = "exit"
    /\ UNCHANGED <<fs, confVars, walk, exitCode, cmd, running, zombies,
                   cancelled, wpc, lastModified, errCh, spc, sigCh, inFlight,
                   arrivals, drainCause, raised, lastBuild, chg, sigInBuild,
                   pass>>

\* part_000:189-214, the initial walk and the parse of the interval.  The
\* callback sends the error of path bad on errCh, empty until then, and the
\* walk goes on; the send of the interval error blocks when the buffer holds
\* that walk error (walk.pos = 0 marks this send).
WatchInitWg ==
    /\ ~Exited
    /\ wpc = "init"
    /\ \E bad \in 0..NFiles :
          /\ lastModified' = {f \in Files : fs[f] # "absent" /\ f # bad}
          /\ errCh' = IF bad # 0 THEN "walk"
                      ELSE IF ~intervalValid THEN "interval" ELSE errCh
          /\ wpc' = IF intervalValid THEN "wait"
                    ELSE IF bad # 0 THEN "send_err" ELSE "stopped"
          /\ raised' = (bad # 0 \/ ~intervalValid)
          /\ arrivals' = IF bad # 0 \/ ~intervalValid
                         THEN Append(arrivals, "err") ELSE arrivals
    /\ UNCHANGED <<fs, confVars, walk, cpc, exitCode, cmd, running, zombies,
                   cancelled, spc, sigCh, inFlight, drainCause, lastBuild, chg,
                   sigInBuild, pass>>

\* part_000:248-255, the end of a pass whose walk left r.
EndWalkWg(r, sent) ==
    /\ lastModified' = r.lm
    /\ fs' = r.tree
    /\ walk' = [pos |-> 0, changes |-> FALSE]
    /\ wpc' = IF r.changes THEN "send_build" ELSE "wait"
    /\ arrivals' = (IF sent THEN Append(arrivals, "err") ELSE arrivals)
                      \o (IF r.changes THEN <<"build">> ELSE <<>>)

\* part_000:222-255, the walk of a pass.  At the path bad the callback
\* sends on errCh: into the free buffer and the walk goes on, or it blocks
\* there with the walk suspended.
WalkWg ==
    /\ ~Exited
    /\ wpc = "walk"
    /\ \E bad \in 0..NFiles :
          IF bad = 0
          THEN /\ EndWalkWg(TickWalkWg(1, NFiles, fs, lastModified, FALSE), FALSE)
               /\ UNCHANGED <<errCh, raised>>
          ELSE LET a == TickWalkWg(1, bad - 1, fs, lastModified, FALSE)
               IN  IF errCh = "empty"
                   THEN /\ errCh' = "walk"
                        /\ raised' = TRUE
                        /\ EndWalkWg(TickWalkWg(bad + 1, NFiles, a.tree, a.lm,
                                                a.changes), TRUE)
                   ELSE /\ wpc' = "send_err"
                        /\ walk' = [pos |-> bad, changes |-> a.changes]
                        /\ lastModified' = a.lm
                        /\ fs' = a.tree
                        /\ UNCHANGED <<errCh, raised, arrivals>>
    /\ UNCHANGED <<confVars, cpc, exitCode, cmd, running, zombies, cancelled,
                   spc, sigCh, inFlight, drainCause, lastBuild, chg, sigInBuild,
                   pass>>

\* The blocked send on errCh completes when the buffer is free: the
\* suspended walk goes on after path walk.pos, or, for the interval error,
\* watchFiles returns.
SendErrWg ==
    /\ ~Exited
    /\ wpc = "send_err"
    /\ errCh = "empty"
    /\ raised' = TRUE
    /\ IF walk.pos = 0
       THEN /\ errCh' = "interval"
            /\ wpc' = "stopped"
            /\ arrivals' = Append(arrivals, "err")
            /\ UNCHANGED <<fs, lastModified, walk>>
       ELSE /\ errCh' = "walk"
            /\ EndWalkWg(TickWalkWg(walk.pos + 1, NFiles, fs, lastModified,
                                    walk.changes), TRUE)
    /\ UNCHANGED <<confVars, cpc, exitCode, cmd, running, zombies, cancelled,
                   spc, sigCh, inFlight, drainCause, lastBuild, chg, sigInBuild,
                   pass>>

\* A signal while sigCh is open.
SignalWg == spc # "returned" /\ Signal

\* part_000:171, the signal goroutine closes sigCh when it returns; a signal
\* delivered afterwards makes signal.Notify's send panic, and the runtime
\* ends the process with status 2.
SigPanicWg ==
    /\ ~Exited
    /\ spc = "returned"
    /\ cpc' = "exited"
    /\ exitCode' = 2
    /\ UNCHANGED <<fs, confVars, walk, cmd, running, zombies, cancelled, wpc,
                   lastModified, errCh, spc, sigCh, inFlight, arrivals,
                   drainCause, raised, lastBuild, chg, sigInBuild, pass>>

CoordinatorWg ==
    \/ InitialBuild \/ BuildReturn \/ RecvBuild \/ RecvErr \/ RecvDone
    \/ Cancel \/ FinalStopWg \/ WgWait \/ Exit

DetectorWg == WatchInitWg \/ WatchCancel \/ Tick \/ WalkWg \/ SendErrWg

EnvironmentWg ==
    \/ \E f \in Files : Touch(f)
    \/ \E f \in Files : Create(f)
    \/ \E f \in Files : Delete(f)
    \/ SignalWg
    \/ SigPanicWg
    \/ ChildExit

NextWg == CoordinatorWg \/ DetectorWg \/ SignalHandler \/ EnvironmentWg

SpecWg == InitWg /\ [][NextWg]_vars

FairSpecWg ==
    /\ SpecWg
    /\ WF_vars(CoordinatorWg)
    /\ WF_vars(DetectorWg)
    /\ WF_vars(SignalHandler)

TypeOK ==
    /\ fs \in [Files -> FileStates]
    /\ lastModified \subseteq Files
    /\ \A f \in Files : fs[f] = "later" => f \in lastModified
    /\ configFile \in ConfigFiles
    /\ config \in [MaxWatchers : Int, WatchInterval : IntervalInputs]
    /\ walk \in [pos : 0..NFiles, changes : BOOLEAN]
    /\ cpc # "loadconfig" =>
          /\ maxWatchers = config.MaxWatchers
          /\ intervalValid = ParseDuration(config.WatchInterval).ok
    /\ cpc \in {"loadconfig", "start", "initbuild", "select", "rebuild", "drain",
                "stopfinal", "wgwait", "exit", "exited"}
    /\ wpc \in {"init", "wait", "walk", "send_build", "send_err", "stopped"}
    /\ spc \in {"select", "send_done", "returned"}
    /\ cmd \in {"nil", "noproc", "running", "exited", "reaped"}
    /\ errCh \in {"empty", "walk", "limit", "interval"}
    /\ exitCode \in {0, 1, 2}
    /\ sigCh \in {0, 1}
    /\ running \in Nat /\ zombies \in Nat

\* =============================================================== claims

\* C1: single-flight.  In every reachable state at most one buildAndRun has
\* been entered and has not yet returned.
C1_SingleFlight == inFlight <= 1

\* A rebuild is in flight after an earlier buildAndRun has returned, while a
\* signal and a fatal error are both waiting.
C1_Witness ==
    /\ cpc = "rebuild" /\ inFlight = 1 /\ lastBuild # "none"
    /\ spc = "send_done" /\ errCh # "empty"

\* C2: at most one child process exists in every reachable state: a child is
\* launched only when the previous one has been killed and reaped, so running
\* and not yet reaped children never add up to more than one.
C2_OneChild == running + zombies <= 1

\* The child of the last successful buildAndRun has been killed and reaped by
\* this rebuild's stopProcess, and the build that precedes the next launch is
\* running.
C2_Witness ==
    /\ cpc = "rebuild" /\ lastBuild = "ok" /\ cmd = "reaped"
    /\ running = 0 /\ zombies = 0

\* C3 as stated: every change to a watched file made while the coordinator is
\* Running is eventually followed by a rebuild cycle that starts after it,
\* unless a FatalError or ShutdownRequested is consumed first.
C3_EveryChangeRebuilt ==
    (Running /\ chg # "none") ~> (chg = "none" \/ drainCause # "none")

\* C3 as amended: a change made after the detector has recorded its baseline,
\* and not undone by a deletion before the detector's next pass, is eventually
\* followed by a rebuild that starts after it; a notification the detector
\* offers is eventually consumed by a rebuild; and every rebuild's
\* buildAndRun returns -- each unless a FatalError or ShutdownRequested is
\* consumed first.
C3_SeenChangeRebuilt ==
    /\ (chg = "base") ~> (chg = "none" \/ drainCause # "none")
    /\ (wpc = "send_build") ~> (cpc = "rebuild" \/ drainCause # "none")
    /\ (cpc = "rebuild") ~> (cpc = "select")

\* A change made during a buildAndRun, after the baseline, is waiting for its
\* rebuild while the detector offers the notification.
C3_Witness ==
    /\ chg = "base" /\ cpc = "rebuild" /\ wpc = "send_build" /\ lastBuild = "ok"

\* C4 as stated: the coordinator handles events in arrival order: every
\* event it consumes is the oldest of the events offered and not yet consumed.
C4_ArrivalOrder ==
    [][Len(arrivals') < Len(arrivals) => arrivals' = Tail(arrivals)]_vars

\* C5 as stated: once a signal has arrived during a buildAndRun, the
\* coordinator back in its select starts no rebuild and leaves with status 0.
C5_NothingAfterSignal ==
    [][(sigInBuild /\ cpc = "select") => (cpc' # "rebuild" /\ exitCode' = 0)]_vars

\* C5 as amended: a buildAndRun in flight is never cut short by draining, and
\* when the coordinator consumes the shutdown of a signal that arrived
\* during a buildAndRun, no buildAndRun is in flight, none starts afterwards,
\* the status stays 0 and the process exits only after cleanup.
C5_ShutdownDeferred ==
    /\ (inFlight > 0 => drainCause = "none")
    /\ (sigInBuild /\ drainCause = "signal") =>
          /\ inFlight = 0
          /\ (Draining \/ Exited)
          /\ exitCode = 0
          /\ (Exited => cancelled /\ running = 0)

\* The process has exited with status 0 on a signal that arrived during a
\* buildAndRun.
C5_Witness ==
    /\ sigInBuild /\ drainCause = "signal" /\ Exited /\ exitCode = 0

\* C6: whenever the process has exited, cancel() has been called and no child
\* process is left, running or unreaped.
C6_CleanupBeforeExit == Exited => (cancelled /\ running = 0 /\ zombies = 0)

\* The process has exited on a fatal error after its last buildAndRun had
\* launched a child, which the final stopProcess reaped.
C6_Witness ==
    /\ Exited /\ exitCode = 1 /\ lastBuild = "ok" /\ cmd = "reaped"

\* C7 as stated: status 0 only after a consumed shutdown signal, and status 1
\* whenever the detector has raised a fatal error before the exit.
C7_StatusOneIfRaised ==
    Exited => /\ (exitCode = 0 => drainCause = "signal")
              /\ (raised => exitCode = 1)
              /\ (exitCode = 1 => raised)

\* C7 as amended: the status is 1 exactly when the event that ended the loop
\* was a fatal error of the detector and 0 exactly when it was the shutdown
\* signal; a build or launch failure never sets it.
C7_ExitStatus ==
    /\ (exitCode = 1) = (drainCause = "fatal")
    /\ (drainCause = "fatal" => raised)
    /\ (Exited => ((exitCode = 0) = (drainCause = "signal")))

\* The process has exited with status 0 although the detector had raised a
\* fatal error, and after a failed build.
C7_Witness ==
    /\ Exited /\ exitCode = 0 /\ raised /\ lastBuild = "failed"

\* C8 as stated: a pass offers exactly one notification if some watched file
\* is new or modified, and none otherwise.
C8_OnePerChangedTick ==
    [][(wpc = "walk" /\ wpc' # "walk") =>
          pass'.emitted = (IF ChangedFiles(fs, lastModified) # {} THEN 1 ELSE 0)]_vars

\* C8 as amended: a pass whose walk completes without error offers exactly one
\* notification if some watched file is new or modified and none otherwise; a
\* pass whose walk fails offers none.
C8_Coalesced ==
    [][(wpc = "walk" /\ wpc' # "walk") =>
          /\ pass'.emitted =
                (IF ChangedFiles(fs, lastModified) # {} /\ wpc' # "stopped"
                 THEN 1 ELSE 0)
          /\ (wpc' = "send_build") = (pass'.emitted = 1)]_vars

\* A pass found several files changed and offered one notification.
C8_Witness ==
    /\ wpc = "send_build" /\ pass.changed >= 2 /\ pass.emitted = 1

\* C9: after a failed build no child runs, until a later build succeeds: the
\* run command was not started and the child stopped before the build stays
\* stopped.
C9_FailedBuildNoChild == lastBuild = "failed" => (running = 0 /\ cmd # "running")

\* A rebuild's build failed after the previous child had been stopped.
C9_Witness ==
    /\ lastBuild = "failed" /\ cpc = "select" /\ cmd = "reaped"

\* C10: a buildAndRun that ends in a failed build or a failed launch returns
\* to the select loop with the exit code unchanged and without draining, and
\* in the loop a pending notification can always be taken up by a rebuild.
C10_FailuresNotFatal ==
    /\ [][(cpc \in {"initbuild", "rebuild"} /\ cpc' # cpc
            /\ lastBuild' \in {"failed", "launchfail"}) =>
           (cpc' = "select" /\ exitCode' = exitCode /\ exitCode' = 0
            /\ drainCause' = "none" /\ cancelled' = FALSE)]_vars
    /\ []((cpc = "select" /\ wpc = "send_build") => ENABLED RecvBuild)

\* A rebuild has started after a buildAndRun that failed.
C10_Witness ==
    /\ cpc = "rebuild" /\ lastBuild \in {"failed", "launchfail"} /\ exitCode = 0

\* C11 as stated: once the detector has raised the watch-limit error the
\* process eventually exits, and with status 1.
C11_LimitExitsOne == (errCh = "limit") ~> (Exited /\ exitCode = 1)

\* C11 as amended: a walk, initial or of a tick, over a tree that holds more
\* matching files than maxWatchers ends the detector with a fatal error
\* instead of a truncated file set; once the limit error is raised the process
\* eventually exits; and when the coordinator consumes the error it drains
\* and the exit status is 1 (a shutdown signal consumed first gives 0).
C11_LimitFatal ==
    /\ [][(wpc \in {"init", "walk"} /\ wpc' # wpc
            /\ Cardinality({f \in Files : fs[f] # "absent"}) > maxWatchers) =>
           (wpc' = "stopped" /\ errCh' \in {"limit", "walk"} /\ raised')]_vars
    /\ (errCh = "limit") ~> Exited
    /\ [](drainCause = "fatal" => ((Draining \/ Exited) /\ exitCode = 1))

\* The process has exited with status 1 after a walk recorded more files than
\* maxWatchers and the coordinator consumed the error.
C11_Witness ==
    /\ Exited /\ exitCode = 1 /\ drainCause = "fatal" /\ wpc = "stopped"
    /\ Tracked(lastModified) > maxWatchers

\* C12 as stated: a signal delivered to the waiting signal goroutine produces
\* a ShutdownRequested event that the coordinator eventually consumes.
C12_SignalConsumed ==
    (sigCh = 1 /\ spc = "select" /\ drainCause = "none") ~> (drainCause = "signal")

\* C12 as amended: the signal goroutine offers at most one ShutdownRequested
\* and never returns to waiting for signals, so a further signal produces no
\* event; a signal delivered while the goroutine waits produces the event
\* unless the coordinator drains on a FatalError first; an offered event is
\* eventually consumed unless a FatalError is consumed first; and a consumed
\* event ends in exit with status 0.
C12_ShutdownOnce ==
    /\ [](Len(SelectSeq(arrivals, LAMBDA e : e = "done")) =
             (IF spc = "send_done" THEN 1 ELSE 0))
    /\ [][spc # "select" =>
           (spc' # "select" /\ (spc = "returned" => spc' = "returned"))]_vars
    /\ (sigCh = 1 /\ spc = "select") ~> (spc = "send_done" \/ drainCause = "fatal")
    /\ (spc = "send_done") ~> (drainCause # "none")
    /\ (drainCause = "signal") ~> (Exited /\ exitCode = 0)

\* The shutdown of the first signal was consumed while a rebuild notification
\* was waiting, and a further signal sits in sigCh with nobody to read it.
C12_Witness ==
    /\ drainCause = "signal" /\ spc = "returned" /\ sigCh = 1
    /\ wpc = "send_build" /\ Exited

\* C13: stopProcess is safe and idempotent.  In every reachable state a call
\* leaves no child running or unreaped, a second call right after it changes
\* nothing, a call with no process tracked (cmd nil, cmd.Process nil after a
\* failed launch, or a process already reaped) changes nothing at all, and
\* the final stopProcess surfaces no error: the exit code stays as it was.
C13_StopIdempotent ==
    /\ [](LET a == stopProcess(cmd, running, zombies)
              b == stopProcess(a.cmd, a.running, a.zombies)
          IN  /\ b = a
              /\ a.running = 0 /\ a.zombies = 0 /\ a.cmd \notin {"running", "exited"}
              /\ (cmd \in {"nil", "noproc", "reaped"} =>
                    a = [cmd |-> cmd, running |-> running, zombies |-> zombies]))
    /\ [][(cpc \in {"select", "stopfinal"} /\ cpc' \in {"rebuild", "exit"}) =>
           (exitCode' = exitCode /\ running' = 0 /\ zombies' = 0
            /\ (cmd \in {"nil", "noproc", "reaped"} => cmd' = cmd))]_vars

\* The final stopProcess has run right after the stopProcess of a rebuild
\* whose build failed: the second call found the process already reaped.
C13_Witness ==
    /\ cpc = "exit" /\ lastBuild = "failed" /\ cmd = "reaped" /\ running = 0

\* C14 as stated: once loadConfig has returned, the effective interval lies
\* between 500ms and 1h and max_watchers between 1 and 500; and when the file
\* holds JSON, an interval below 500ms has become 500ms, one above 1h has
\* become 1h, an empty or unparsable one 1s, max_watchers below 1 has become
\* 100 and above 500 has become 500, and values in range are kept.
C14_Clamped ==
    cpc # "loadconfig" =>
       LET p == ParseDuration(config.WatchInterval)
           in == configFile.WatchInterval
           q == ParseDuration(in)
           n == configFile.MaxWatchers
       IN  /\ p.ok /\ minInterval <= p.d /\ p.d <= maxInterval
           /\ 1 <= config.MaxWatchers /\ config.MaxWatchers <= MaxWatchersLimit
           /\ configFile.status \in {"typeerror", "ok"} =>
                 /\ config.WatchInterval =
                       (IF ~q.ok THEN Dur(DefaultInterval)
                        ELSE IF q.d < minInterval THEN Dur(minInterval)
                        ELSE IF q.d > maxInterval THEN Dur(maxInterval)
                        ELSE in)
                 /\ config.MaxWatchers =
                       (IF n < 1 THEN DefaultMaxWatchers
                        ELSE IF n > MaxWatchersLimit THEN MaxWatchersLimit
                        ELSE n)

\* C15 as stated: each kind of change to a watched file -- modified, added
\* or deleted -- triggers the cycle: a pass that completes offers a rebuild
\* notification exactly when, since the fingerprints were taken, some watched
\* file has been modified, added, or deleted.
C15_EveryKindTriggers ==
    [][(wpc = "walk" /\ wpc' \in {"wait", "send_build"}) =>
          ((wpc' = "send_build") =
             (\/ ChangedFiles(fs, lastModified) # {}
              \/ \E f \in lastModified : fs[f] = "absent"))]_vars

\* C16: once the coordinator has consumed a FatalError or ShutdownRequested
\* it is draining or has exited, no buildAndRun is in flight and none starts,
\* no child is launched, and a rebuild notification the detector is offering
\* is never received.
C16_NoBuildAfterDrain ==
    /\ [](drainCause # "none" => (inFlight = 0 /\ (Draining \/ Exited)))
    /\ [][drainCause # "none" =>
           /\ inFlight' = 0
           /\ running' <= running
           /\ (cmd' = "running" => cmd = "running")
           /\ lastBuild' = lastBuild
           /\ (wpc = "send_build" => wpc' = "send_build")]_vars

\* The coordinator has stopped the child and is about to exit while the
\* detector still offers a rebuild notification.
C16_Witness ==
    /\ cpc = "exit" /\ wpc = "send_build" /\ cmd = "reaped" /\ lastBuild = "ok"

\* C17 as stated: after cancel() the detector emits nothing more: no step
\* taken once the context is cancelled puts an error on errCh or starts to
\* offer a rebuild notification.
C17_SilentAfterCancel ==
    [][cancelled =>
          /\ errCh' = errCh
          /\ raised' = raised
          /\ (wpc' = "send_build" => wpc = "send_build")]_vars

\* C18: a walk error ends the detector with one propagated error.  The
\* buffer of errCh is free until the detector's only send, so the send never
\* blocks; the step that raises the error offers no notification for that
\* pass and stops the detector; and from then on the detector stays stopped,
\* runs no further pass and sends nothing more.
C18_WalkErrorStops ==
    /\ [](~raised => errCh = "empty")
    /\ [](raised => wpc = "stopped")
    /\ [][(~raised /\ raised') =>
           /\ errCh' # "empty" /\ wpc' = "stopped"
           /\ pass'.emitted = 0
           /\ arrivals' = Append(arrivals, "err")]_vars
    /\ [][raised =>
           /\ raised' /\ wpc' = "stopped"
           /\ errCh' \in {errCh, "empty"}
           /\ lastModified' = lastModified /\ pass' = pass]_vars

\* A pass found both files changed, recorded the first and failed at the
\* second: the error is in errCh and no notification was offered.
C18_Witness ==
    /\ wpc = "stopped" /\ errCh = "walk" /\ pass.changed = 2 /\ pass.emitted = 0
    /\ 1 \in lastModified /\ fs[1] = "notlater" /\ fs[2] = "later"

\* C19 as stated: the initial walk and the walk of a tick apply the same
\* bound: the detector raises the watch-limit error only when the files it
\* tracks, the one just recorded included, are strictly more than
\* maxWatchers.
C19_SameBound ==
    [][(errCh = "empty" /\ errCh' = "limit") =>
          Tracked(lastModified') > maxWatchers]_vars

\* C20 as stated, for the revision that waits for the detector before it
\* exits: once the coordinator has consumed a FatalError or
\* ShutdownRequested the process eventually exits.
C20_DrainExits == (drainCause # "none") ~> Exited

====
